---------------------------- MODULE Spec2Model ----------------------------
(***************************************************************************)
(* connectTypes(routes, history, options) of src/connectTypes.js: the      *)
(* per-instance closure state (currentPathname, prev), the location        *)
(* reducer, the middleware, the enhancer, the history listener and the     *)
(* module-level go helper, for two instances with different route tables.  *)
(*                                                                         *)
(* Encoding of JavaScript values:                                          *)
(*   - a pathname is the sequence of its segments ("/info/7" is            *)
(*     <<"info", "7">>); the null pathname is NullPathname;                *)
(*   - a payload is a function from parameter names to values;             *)
(*   - a value that may be undefined/null is a sequence of length 0 or 1.  *)
(***************************************************************************)
EXTENDS Integers, Sequences, FiniteSets, TLC

VARIABLES
    inst,          \* per instance: the closure of one connectTypes call, its store and its history
    _exportedGo,   \* the module-level slot of line 229: 0 (undefined) or the instance that set it last
    last,          \* observation of the last handler run: what it forwarded, pushed, logged
    built,         \* per instance: the last envelope _prepareAction built, <<>> before the first
    steps          \* number of triggers (T1, T2, T3) and go calls so far

vars == <<inst, _exportedGo, last, built, steps>>

Inst == {1, 2}

----------------------------------------------------------------------------
(* Values *)

Null == "null"
NullPathname == <<Null>>
NOT_FOUND == "@@pure-redux-router/NOT_FOUND"
EmptyPayload == [n \in {} |-> ""]

Lit(s) == [kind |-> "lit", text |-> s]
Param(n) == [kind |-> "param", text |-> n]

\* routes argument of connectTypes, one table per instance
ROUTES_DICT(i) ==
    IF i = 1
    THEN [HOME |-> <<Lit("home")>>, INFO |-> <<Lit("info"), Param("id")>>]
    ELSE [HOME |-> <<Lit("home")>>, ITEM |-> <<Lit("item"), Param("id")>>]

\* Object.keys(ROUTES_DICT): declaration order
ROUTE_NAMES(i) == IF i = 1 THEN <<"HOME", "INFO">> ELSE <<"HOME", "ITEM">>

\* routesDictToArray(ROUTE_NAMES, ROUTES_DICT)
routesDictToArray(routeNames, routesDict) ==
    [k \in 1..Len(routeNames) |-> routesDict[routeNames[k]]]

ROUTES(i) == routesDictToArray(ROUTE_NAMES(i), ROUTES_DICT(i))

\* property names the routes object inherits from Object.prototype (one of
\* them): ROUTES_DICT[name] is a function there, which is truthy
InheritedNames == {"toString"}

\* ROUTES_DICT[type] of lines 66 and 105 is truthy: type is a route name of the
\* table or a property name the table inherits
HasRoutesEntry(i, type) == type \in DOMAIN ROUTES_DICT(i) \cup InheritedNames

----------------------------------------------------------------------------
(* Path resolver and action resolver *)

ParamNames(pattern) ==
    {pattern[k].text : k \in {j \in 1..Len(pattern) : pattern[j].kind = "param"}}

\* structural match: equal segment count, literal segments equal verbatim
Matches(pattern, pathname) ==
    /\ Len(pattern) = Len(pathname)
    /\ pathname # NullPathname
    /\ \A k \in 1..Len(pattern) :
          pattern[k].kind = "lit" => pattern[k].text = pathname[k]

Captures(pattern, pathname) ==
    [n \in ParamNames(pattern) |->
        pathname[CHOOSE k \in 1..Len(pattern) : pattern[k] = Param(n)]]

\* pathToAction that binds no capture: the payload is always empty
pathToAction_NoCapture(pathname, routes, routeNames) ==
    LET hits == {k \in 1..Len(routes) : Matches(routes[k], pathname)}
    IN  IF hits = {}
        THEN [type |-> NOT_FOUND, payload |-> EmptyPayload]
        ELSE LET k == CHOOSE h \in hits : \A g \in hits : h <= g
             IN  [type |-> routeNames[k], payload |-> EmptyPayload]

\* pathToAction(pathname, routes, routeNames): first declared match wins
pathToAction(pathname, routes, routeNames) ==
    LET hits == {k \in 1..Len(routes) : Matches(routes[k], pathname)}
    IN  IF hits = {}
        THEN [type |-> NOT_FOUND, payload |-> EmptyPayload]
        ELSE LET k == CHOOSE h \in hits : \A g \in hits : h <= g
             IN  [type |-> routeNames[k], payload |-> Captures(routes[k], pathname)]

\* actionToPath throws when the type is no route name of the table and when a
\* parameter of the pattern is missing from the payload
actionToPathThrows(action, routesDict) ==
    IF action.type \notin DOMAIN routesDict THEN TRUE
    ELSE \E n \in ParamNames(routesDict[action.type]) : n \notin DOMAIN action.payload

\* actionToPath(action, routesDict): every capture slot replaced by its payload value
actionToPath(action, routesDict) ==
    LET pattern == routesDict[action.type]
    IN  [k \in 1..Len(pattern) |->
            IF pattern[k].kind = "lit" THEN pattern[k].text
            ELSE action.payload[pattern[k].text]]

----------------------------------------------------------------------------
(* Envelope builder *)

Snapshot(pathname, action) ==
    [pathname |-> pathname, type |-> action.type, payload |-> action.payload]

\* nestAction(pathname, receivedAction, prev)
nestAction(pathname, receivedAction, prev) ==
    [type |-> receivedAction.type,
     payload |-> receivedAction.payload,
     error |-> receivedAction.error,
     meta |-> << [current |-> Snapshot(pathname, receivedAction),
                  prev |-> prev,
                  load |-> FALSE,
                  backNext |-> FALSE] >>]

\* isLocationAction(action): the action carries meta.location
isLocationAction(action) == action.meta # <<>>

\* an action as client code dispatches it: no meta
PlainAction(type, payload) ==
    [type |-> type, payload |-> payload, error |-> FALSE, meta |-> <<>>]

----------------------------------------------------------------------------
(* Options and hosts *)

\* options argument: location (the state key, undefined gives 'location'),
\* onBackNext (given or not), title (the state key of the title, or undefined);
\* window: whether the host has a window (a browser) or not (a server)
OptionsSet ==
    { [location |-> <<>>,      onBackNext |-> TRUE,  title |-> <<"title">>, window |-> TRUE],
      [location |-> <<>>,      onBackNext |-> FALSE, title |-> <<>>,        window |-> FALSE],
      [location |-> <<"loc">>, onBackNext |-> TRUE,  title |-> <<"title">>, window |-> TRUE] }

\* const {location: locationKey='location'} = options
locationKey(options) ==
    IF options.location = <<>> THEN "location" ELSE options.location[1]

\* pathnames the platform can be at or navigate to
Pathnames == { <<"home">>, <<"info", "7">>, <<"unknown">> }

\* history.location.pathname when connectTypes is called
InitialAddress(i) == IF i = 1 THEN <<"home">> ELSE <<"unknown">>

\* payloads client code dispatches
Payloads == { EmptyPayload, [id |-> "7"] }

\* the number of triggers (T1, T2, T3) and go calls explored
MaxTriggers == 3

\* the most actions one trigger may forward before the listener/dispatch
\* recursion is cut (the code forwards one)
MaxForwards == 3

----------------------------------------------------------------------------
(* The closure of one connectTypes call, with its store and history.      *)
(* A run r is [m, log, threw, ret]: the instance while a handler runs,    *)
(* the events the handler caused so far, whether it threw, and the value  *)
(* the last called function returned.                                     *)

Emit(r, event) == [r EXCEPT !.log = Append(@, event)]

Count(log, e) == Len(SelectSeq(log, LAMBDA x : x.e = e))

\* store.getState()[key]: undefined when the state has no such key
StateAt(m, key) ==
    IF m.store # <<>> /\ key \in DOMAIN m.store[1] THEN <<m.store[1][key]>> ELSE <<>>

\* lines 42-54
INITIAL_LOCATION_STATE(i, pathname) ==
    LET a == pathToAction(pathname, ROUTES(i), ROUTE_NAMES(i))
    IN  [pathname |-> pathname, type |-> a.type, payload |-> a.payload,
         prev |-> <<>>, load |-> FALSE, backNext |-> FALSE]

\* lines 65-85; prev <<>> is the initial {pathname: null, type: null, payload: null}
locationReducer(i, state, action) ==
    IF HasRoutesEntry(i, action.type) \/ action.type = NOT_FOUND
    THEN LET loc == action.meta[1]
         IN  [pathname |-> loc.current.pathname,
              type |-> action.type,
              payload |-> action.payload,
              prev |-> IF loc.prev # <<>> THEN loc.prev ELSE state.prev,
              load |-> loc.load,
              backNext |-> loc.backNext]
    ELSE state

\* _prepareAction without line 205: the closure's prev is never advanced
_prepareAction_NoChain(r, pathname, receivedAction) ==
    LET action == nestAction(pathname, receivedAction, r.m.prev)
    IN  [Emit(r, [e |-> "envelope", action |-> action]) EXCEPT !.ret = action]

\* lines 201-207: the envelope is chained on the closure's prev, which becomes
\* a copy of the new current
_prepareAction(r, pathname, receivedAction) ==
    LET action == nestAction(pathname, receivedAction, r.m.prev)
    IN  [Emit(r, [e |-> "envelope", action |-> action])
            EXCEPT !.m.prev = <<action.meta[1].current>>, !.ret = action]

\* lines 177-189
createMiddlewareAction(r, action, routesDict, location) ==
    IF ~actionToPathThrows(action, routesDict)
    THEN _prepareAction(r, actionToPath(action, routesDict), action)
    ELSE LET pathname == IF location # <<>> /\ location[1].pathname # NullPathname
                         THEN location[1].pathname ELSE NullPathname
         IN  _prepareAction(Emit(r, [e |-> "caught"]), pathname,
                            PlainAction(NOT_FOUND, action.payload))

\* createHistoryAction without line 194: the kind flag is never set
createHistoryAction_NoFlag(r, i, pathname, kind) ==
    LET a == pathToAction(pathname, ROUTES(i), ROUTE_NAMES(i))
    IN  _prepareAction(r, pathname, PlainAction(a.type, a.payload))

\* lines 191-196
createHistoryAction(r, i, pathname, kind) ==
    LET a  == pathToAction(pathname, ROUTES(i), ROUTE_NAMES(i))
        r1 == _prepareAction(r, pathname, PlainAction(a.type, a.payload))
    IN  [r1 EXCEPT !.ret.meta[1][kind] = TRUE]

RECURSIVE dispatch(_, _, _)

\* handleHistoryChanges with the observer call of line 150 moved below the
\* dispatch of line 154
handleHistoryChanges_ObserverLate(r, i, location) ==
    IF location # r.m.currentPathname
    THEN LET r2 == [r EXCEPT !.m.currentPathname = location]
             r3 == createHistoryAction(r2, i, r2.m.currentPathname, "backNext")
             r4 == dispatch(r3, i, r3.ret)
         IN  IF r4.m.options.onBackNext
             THEN Emit(r4, [e |-> "onBackNext", pathname |-> location,
                            tracked |-> r4.m.currentPathname,
                            forwarded |-> Count(r4.log, "forward")])
             ELSE r4
    ELSE Emit(r, [e |-> "ignored", pathname |-> location])

\* handleHistoryChanges without the comparison of line 149
handleHistoryChanges_NoGuard(r, i, location) ==
    LET r1 == IF r.m.options.onBackNext
              THEN Emit(r, [e |-> "onBackNext", pathname |-> location,
                            tracked |-> r.m.currentPathname,
                            forwarded |-> Count(r.log, "forward")])
              ELSE r
        r2 == [r1 EXCEPT !.m.currentPathname = location]
        r3 == createHistoryAction(r2, i, r2.m.currentPathname, "backNext")
    IN  dispatch(r3, i, r3.ret)

\* lines 147-156
handleHistoryChanges(r, i, location) ==
    IF location # r.m.currentPathname
    THEN LET r1 == IF r.m.options.onBackNext
                   THEN Emit(r, [e |-> "onBackNext", pathname |-> location,
                                 tracked |-> r.m.currentPathname,
                                 forwarded |-> Count(r.log, "forward")])
                   ELSE r
             r2 == [r1 EXCEPT !.m.currentPathname = location]
             r3 == createHistoryAction(r2, i, r2.m.currentPathname, "backNext")
         IN  dispatch(r3, i, r3.ret)
    ELSE Emit(r, [e |-> "ignored", pathname |-> location])

\* the history argument of connectTypes (line 22) decides what its location
\* is after push({pathname: null}): the history of instance 1 takes the null
\* as it is, the history of instance 2 resolves it against its current
\* location, which then stays
PushedPathname(r, i, pathname) ==
    IF pathname = NullPathname /\ i = 2 THEN r.m.address ELSE pathname

\* HISTORY.push({pathname}): the platform address changes and the registered
\* listener is called with the new location before push returns
HistoryPush(r, i, pathname) ==
    LET r1 == [Emit(r, [e |-> "push", pathname |-> pathname])
                  EXCEPT !.m.address = PushedPathname(r, i, pathname)]
    IN  IF r1.m.listening THEN handleHistoryChanges(r1, i, r1.m.address) ELSE r1

\* lines 168-172
changePageTitle(r, title) ==
    IF r.m.options.window /\ title # <<>> THEN Emit(r, [e |-> "title"]) ELSE r

\* the title nextState[titleKey] of line 164
TitleOf(m) == IF m.options.title = <<>> THEN <<>> ELSE StateAt(m, m.options.title[1])

\* changeAddressBar with line 164 moved out of the if: the title is written
\* after every reconciliation
changeAddressBar_TitleAlways(r, i) ==
    LET location == StateAt(r.m, locationKey(r.m.options))[1]
        r3 == IF location.pathname # r.m.currentPathname
              THEN LET r1 == [r EXCEPT !.m.currentPathname = location.pathname]
                   IN  HistoryPush(r1, i, r1.m.currentPathname)
              ELSE r
    IN  changePageTitle(r3, TitleOf(r3.m))

\* changeAddressBar with lines 162 and 163 swapped: the push is made while
\* currentPathname is still the old pathname
changeAddressBar_PushFirst(r, i) ==
    LET location == StateAt(r.m, locationKey(r.m.options))[1]
    IN  IF location.pathname # r.m.currentPathname
        THEN LET r1 == HistoryPush(r, i, location.pathname)
                 r2 == [r1 EXCEPT !.m.currentPathname = location.pathname]
             IN  changePageTitle(r2, TitleOf(r2.m))
        ELSE r

\* changeAddressBar with the comparison of line 161 inverted
changeAddressBar_Inverted(r, i) ==
    LET location == StateAt(r.m, locationKey(r.m.options))[1]
    IN  IF location.pathname = r.m.currentPathname
        THEN LET r1 == [r EXCEPT !.m.currentPathname = location.pathname]
                 r2 == HistoryPush(r1, i, r1.m.currentPathname)
             IN  changePageTitle(r2, TitleOf(r2.m))
        ELSE r

\* changeAddressBar without line 163: the tracked pathname moves, the
\* platform address does not
changeAddressBar_NoPush(r, i) ==
    LET location == StateAt(r.m, locationKey(r.m.options))[1]
    IN  IF location.pathname # r.m.currentPathname
        THEN LET r1 == [r EXCEPT !.m.currentPathname = location.pathname]
             IN  changePageTitle(r1, TitleOf(r1.m))
        ELSE r

\* lines 158-166
changeAddressBar(r, i) ==
    LET location == StateAt(r.m, locationKey(r.m.options))[1]
    IN  IF location.pathname # r.m.currentPathname
        THEN LET r1 == [r EXCEPT !.m.currentPathname = location.pathname]
                 r2 == HistoryPush(r1, i, r1.m.currentPathname)
             IN  changePageTitle(r2, TitleOf(r2.m))
        ELSE r

\* next(action): the store runs its reducers; the location reducer is mounted
\* at locationKey
StoreNext(r, i, action) ==
    LET key == locationKey(r.m.options)
    IN  [Emit(r, [e |-> "forward", action |-> action])
            EXCEPT !.m.store[1][key] = locationReducer(i, @, action), !.ret = action]

\* the middleware without the changeAddressBar call of line 112
middleware_NoReconcile(r, i, action) ==
    LET location == StateAt(r.m, "location")
        r1 == IF action.error /\ isLocationAction(action)
              THEN [Emit(r, [e |-> "warn"]) EXCEPT !.ret = action]
              ELSE IF action.type = NOT_FOUND /\ ~isLocationAction(action)
              THEN IF location = <<>>
                   THEN [r EXCEPT !.threw = TRUE]
                   ELSE _prepareAction(r, location[1].pathname,
                                       PlainAction(NOT_FOUND, action.payload))
              ELSE IF HasRoutesEntry(i, action.type) /\ ~isLocationAction(action)
              THEN createMiddlewareAction(r, action, ROUTES_DICT(i), location)
              ELSE [r EXCEPT !.ret = action]
    IN  IF r1.threw THEN r1 ELSE StoreNext(r1, i, r1.ret)

\* lines 91-115; store.getState().location is read at the fixed key 'location'
middleware(r, i, action) ==
    LET location == StateAt(r.m, "location")
        r1 == IF action.error /\ isLocationAction(action)
              THEN [Emit(r, [e |-> "warn"]) EXCEPT !.ret = action]
              ELSE IF action.type = NOT_FOUND /\ ~isLocationAction(action)
              THEN IF location = <<>>
                   THEN [r EXCEPT !.threw = TRUE]
                   ELSE _prepareAction(r, location[1].pathname,
                                       PlainAction(NOT_FOUND, action.payload))
              ELSE IF HasRoutesEntry(i, action.type) /\ ~isLocationAction(action)
              THEN createMiddlewareAction(r, action, ROUTES_DICT(i), location)
              ELSE [r EXCEPT !.ret = action]
    IN  IF r1.threw THEN r1
        ELSE LET r2 == StoreNext(r1, i, r1.ret)
                 r3 == changeAddressBar(r2, i)
             IN  [r3 EXCEPT !.ret = r2.ret]

\* store.dispatch of the store the enhancer wraps: through the middleware
\* (the host composes the enhancer around applyMiddleware(middleware))
dispatch(r, i, action) ==
    IF Count(r.log, "forward") >= MaxForwards
    THEN Emit(r, [e |-> "cut"])
    ELSE middleware(r, i, action)

----------------------------------------------------------------------------
(* State machine *)

\* the instance before connectTypes is called: only its history exists
Unconstructed(address) ==
    [constructed |-> FALSE, options |-> CHOOSE o \in OptionsSet : TRUE,
     currentPathname |-> NullPathname, prev |-> <<>>, store |-> <<>>,
     address |-> address, listening |-> FALSE]

Run(m) == [m |-> m, log |-> <<>>, threw |-> FALSE, ret |-> <<>>]

\* what the last handler did: instance, trigger kind, input, the tracked
\* pathname, platform address and closure prev it started from, the events it
\* caused, whether it threw, what it returned
Observe(i, kind, arg, r) ==
    [inst |-> i, kind |-> kind, arg |-> arg,
     tracked |-> inst[i].currentPathname, address |-> inst[i].address,
     prev |-> inst[i].prev,
     log |-> r.log, threw |-> r.threw, ret |-> r.ret]

Init ==
    /\ inst = [i \in Inst |-> Unconstructed(InitialAddress(i))]
    /\ _exportedGo = 0
    /\ last = [inst |-> 0, kind |-> "none", arg |-> <<>>, tracked |-> NullPathname,
               address |-> NullPathname, prev |-> <<>>, log |-> <<>>,
               threw |-> FALSE, ret |-> <<>>]
    /\ built = [i \in Inst |-> <<>>]
    /\ steps = 0

\* prev declared at module level instead of inside connectTypes: one binding
\* shared by every instance
Commit_SharedPrev(i, m) ==
    [j \in Inst |-> IF j = i THEN m ELSE [inst[j] EXCEPT !.prev = m.prev]]

\* lines 33-35 and 201: currentPathname and prev are declared inside
\* connectTypes, so what a handler of instance i writes lands in the closure of
\* instance i and in no other
Commit(i, m) == [j \in Inst |-> IF j = i THEN m ELSE inst[j]]

\* the envelopes a run built, in order
Envelopes(log) ==
    LET evs == SelectSeq(log, LAMBDA x : x.e = "envelope")
    IN  [k \in 1..Len(evs) |-> evs[k].action.meta[1]]

\* the actions a run forwarded to the store, in order
Forwards(log) ==
    LET evs == SelectSeq(log, LAMBDA x : x.e = "forward")
    IN  [k \in 1..Len(evs) |-> evs[k].action]

\* the pathnames a run pushed to the platform address, in order
Pushes(log) ==
    LET evs == SelectSeq(log, LAMBDA x : x.e = "push")
    IN  [k \in 1..Len(evs) |-> evs[k].pathname]

\* the outcome of a handler run of instance i
Finish(i, kind, arg, r) ==
    /\ inst' = Commit(i, r.m)
    /\ last' = Observe(i, kind, arg, r)
    /\ built' = [built EXCEPT ![i] =
                    IF Envelopes(r.log) = <<>> THEN @
                    ELSE <<Envelopes(r.log)[Len(Envelopes(r.log))]>>]

\* lines 22-61 and 209-211: connectTypes(routes, history, options)
connectTypes(i, options) ==
    /\ ~inst[i].constructed
    /\ Finish(i, "construct", options,
              Run([inst[i] EXCEPT !.constructed = TRUE,
                                  !.options = options,
                                  !.currentPathname = inst[i].address,
                                  !.prev = <<>>]))
    /\ _exportedGo' = i
    /\ UNCHANGED steps

\* a host that mounts no location reducer: a reducer of its own sits at both
\* keys and its state has no pathname
NoLocationReducer == "-"

\* the state of the store createStore returns: the host mounts the location
\* reducer at hostKey and a title string at 'title'
CreatedState(i, hostKey) ==
    IF hostKey = NoLocationReducer
    THEN [k \in {"location", "loc", "title"} |->
            IF k = "title" THEN "t" ELSE [pathname |-> NullPathname]]
    ELSE [k \in {hostKey, "title"} |->
            IF k = hostKey
            THEN INITIAL_LOCATION_STATE(i, inst[i].currentPathname)
            ELSE "t"]

\* the enhancer with line 137 calling createHistoryAction(currentPathname):
\* the kind defaults to 'backNext'
enhancerRun_NoLoadKind(i, hostKey) ==
    LET m0 == [inst[i] EXCEPT !.store = <<CreatedState(i, hostKey)>>]
        location == StateAt(m0, locationKey(m0.options))
    IN  IF location = <<>> \/ location[1].pathname = NullPathname
        THEN [Run(inst[i]) EXCEPT !.threw = TRUE]
        ELSE LET r1 == Emit(Run([m0 EXCEPT !.listening = TRUE]), [e |-> "listen"])
                 r2 == createHistoryAction(r1, i, r1.m.currentPathname, "backNext")
             IN  dispatch(r2, i, r2.ret)

\* the enhancer with line 135 moved above the check of line 127: the listener
\* is registered before the location state is looked at
enhancerRun_ListenFirst(i, hostKey) ==
    LET m0 == [inst[i] EXCEPT !.store = <<CreatedState(i, hostKey)>>]
        location == StateAt(m0, locationKey(m0.options))
    IN  IF location = <<>> \/ location[1].pathname = NullPathname
        THEN [Emit(Run([inst[i] EXCEPT !.listening = TRUE]), [e |-> "listen"])
                 EXCEPT !.threw = TRUE]
        ELSE LET r1 == Emit(Run([m0 EXCEPT !.listening = TRUE]), [e |-> "listen"])
                 r2 == createHistoryAction(r1, i, r1.m.currentPathname, "load")
             IN  dispatch(r2, i, r2.ret)

\* lines 120-142
enhancerRun(i, hostKey) ==
    LET m0 == [inst[i] EXCEPT !.store = <<CreatedState(i, hostKey)>>]
        location == StateAt(m0, locationKey(m0.options))
    IN  IF location = <<>> \/ location[1].pathname = NullPathname
        THEN [Run(inst[i]) EXCEPT !.threw = TRUE]
        ELSE LET r1 == Emit(Run([m0 EXCEPT !.listening = TRUE]), [e |-> "listen"])
                 r2 == createHistoryAction(r1, i, r1.m.currentPathname, "load")
             IN  dispatch(r2, i, r2.ret)

enhancer(i, hostKey) ==
    /\ inst[i].constructed
    /\ inst[i].store = <<>>
    /\ Finish(i, "load", hostKey, enhancerRun(i, hostKey))
    /\ UNCHANGED <<_exportedGo, steps>>

\* T1: client code dispatches a route-typed action without location metadata
DispatchRoute(i, type, payload) ==
    /\ steps < MaxTriggers
    /\ steps' = steps + 1
    /\ inst[i].store # <<>>
    /\ Finish(i, "T1", PlainAction(type, payload),
              dispatch(Run(inst[i]), i, PlainAction(type, payload)))
    /\ UNCHANGED _exportedGo

\* T2: client code dispatches NOT_FOUND without location metadata
DispatchNotFound(i, payload) ==
    /\ steps < MaxTriggers
    /\ steps' = steps + 1
    /\ inst[i].store # <<>>
    /\ Finish(i, "T2", PlainAction(NOT_FOUND, payload),
              dispatch(Run(inst[i]), i, PlainAction(NOT_FOUND, payload)))
    /\ UNCHANGED _exportedGo

\* T3: the platform address changes outside the dispatch pipeline and the
\* history calls the listener registered at line 135
Navigate(i, pathname) ==
    /\ steps < MaxTriggers
    /\ steps' = steps + 1
    /\ inst[i].listening
    /\ Finish(i, "T3", pathname,
              handleHistoryChanges(Run([inst[i] EXCEPT !.address = pathname]),
                                   i, pathname))
    /\ UNCHANGED _exportedGo

\* the binding the call of line 241 resolves: the module declares _exportedGo
\* (line 229) and no exportedGo, so there is none
exportedGo == <<>>

\* lines 231-242
goRun(pathname) ==
    LET r0 == [m |-> <<>>, log |-> <<>>, threw |-> FALSE, ret |-> <<>>]
        r1 == IF _exportedGo = 0 THEN Emit(r0, [e |-> "warn"]) ELSE r0
    IN  IF exportedGo = <<>>
        THEN [r1 EXCEPT !.threw = TRUE]
        ELSE [r1 EXCEPT !.ret = <<pathToAction(pathname, ROUTES(exportedGo[1]),
                                               ROUTE_NAMES(exportedGo[1]))>>]

go(pathname) ==
    /\ steps < MaxTriggers
    /\ steps' = steps + 1
    /\ LET r == goRun(pathname)
       IN  last' = [inst |-> 0, kind |-> "go", arg |-> pathname,
                    tracked |-> NullPathname, address |-> NullPathname,
                    prev |-> <<>>, log |-> r.log, threw |-> r.threw, ret |-> r.ret]
    /\ UNCHANGED <<inst, _exportedGo, built>>

Next ==
    \/ \E i \in Inst, o \in OptionsSet : connectTypes(i, o)
    \/ \E i \in Inst, k \in {"location", "loc", NoLocationReducer} : enhancer(i, k)
    \/ \E i \in Inst : \E t \in DOMAIN ROUTES_DICT(i), p \in Payloads : DispatchRoute(i, t, p)
    \/ \E i \in Inst : DispatchNotFound(i, EmptyPayload)
    \/ \E i \in Inst, p \in Pathnames : Navigate(i, p)
    \/ \E p \in {<<"info", "7">>, <<"unknown">>} : go(p)

Spec == Init /\ [][Next]_vars

\* an action that already carries location metadata for the pathname, as a
\* dispatch through this instance returned it earlier, with its error flag set
ErrorLocationAction(i, pathname) ==
    LET a == pathToAction(pathname, ROUTES(i), ROUTE_NAMES(i))
    IN  [nestAction(pathname, PlainAction(a.type, a.payload), <<>>)
            EXCEPT !.error = TRUE]

\* client code dispatches an action with an error flag and location metadata
DispatchErrorLocation(i, pathname) ==
    /\ steps < MaxTriggers
    /\ steps' = steps + 1
    /\ inst[i].store # <<>>
    /\ Finish(i, "error", ErrorLocationAction(i, pathname),
              dispatch(Run(inst[i]), i, ErrorLocationAction(i, pathname)))
    /\ UNCHANGED _exportedGo

\* action types that are no route name of instance i and not NOT_FOUND: a
\* type of the application, the route names only the other table has, and a
\* type that is a property name every object inherits
OtherTypes(i) ==
    {"OTHER"} \cup InheritedNames
              \cup ((DOMAIN ROUTES_DICT(1) \cup DOMAIN ROUTES_DICT(2))
                       \ DOMAIN ROUTES_DICT(i))

\* client code dispatches an action that is neither route-typed nor NOT_FOUND
DispatchOther(i, type, payload) ==
    /\ steps < MaxTriggers
    /\ steps' = steps + 1
    /\ inst[i].store # <<>>
    /\ Finish(i, "other", PlainAction(type, payload),
              dispatch(Run(inst[i]), i, PlainAction(type, payload)))
    /\ UNCHANGED _exportedGo

\* every operation, the dispatches of non-trigger actions included
NextAll ==
    \/ Next
    \/ \E i \in Inst : DispatchErrorLocation(i, <<"info", "7">>)
    \/ \E i \in Inst : \E t \in OtherTypes(i) : DispatchOther(i, t, [id |-> "7"])

SpecAll == Init /\ [][NextAll]_vars

----------------------------------------------------------------------------
(* The two resolvers on their own: an action is resolved to a pathname     *)
(* (line 179) and the pathname is resolved back to an action (line 192).   *)

\* a routes argument whose patterns overlap: '/:page' is declared before
\* '/home' and matches it too
OVERLAPPING_DICT ==
    [PAGE |-> <<Param("page")>>,
     HOME |-> <<Lit("home")>>,
     POST |-> <<Lit("post"), Param("id"), Param("slug")>>]

OVERLAPPING_NAMES == <<"PAGE", "HOME", "POST">>

\* the route tables resolved against: those of the two instances and the
\* overlapping one
Tables == Inst \cup {3}

TripDict(t) == IF t \in Inst THEN ROUTES_DICT(t) ELSE OVERLAPPING_DICT

TripNames(t) == IF t \in Inst THEN ROUTE_NAMES(t) ELSE OVERLAPPING_NAMES

TripRoutes(t) == routesDictToArray(TripNames(t), TripDict(t))

\* payload values: one path segment each, so none holds a path delimiter
TripValues == {"7", "home", "x"}

TripParams == {"id", "slug", "page"}

\* payloads with any of the parameter names: too few, exactly, or too many
\* for a route
TripPayloads == UNION {[D -> TripValues] : D \in SUBSET TripParams}

TripObserve(kind, arg, ret) ==
    [inst |-> 0, kind |-> kind, arg |-> arg, tracked |-> NullPathname,
     address |-> NullPathname, prev |-> <<>>, log |-> <<>>,
     threw |-> FALSE, ret |-> ret]

InitTrip ==
    /\ inst = [i \in Inst |-> Unconstructed(InitialAddress(i))]
    /\ _exportedGo = 0
    /\ built = [i \in Inst |-> <<>>]
    /\ steps = 0
    /\ \E t \in Tables :
         \E type \in DOMAIN TripDict(t), payload \in TripPayloads :
            last = TripObserve("action",
                               [table |-> t,
                                action |-> [type |-> type, payload |-> payload]],
                               <<>>)

\* line 179: actionToPath(action, routesDict), which throws when the payload
\* lacks a parameter
ResolveAction ==
    /\ last.kind = "action"
    /\ last' = IF actionToPathThrows(last.arg.action, TripDict(last.arg.table))
               THEN [TripObserve("failed", last.arg, <<>>) EXCEPT !.threw = TRUE]
               ELSE TripObserve("pathname", last.arg,
                                <<actionToPath(last.arg.action,
                                               TripDict(last.arg.table))>>)
    /\ UNCHANGED <<inst, _exportedGo, built, steps>>

\* line 192: pathToAction(pathname, routes, routeNames)
ResolvePath ==
    /\ last.kind = "pathname"
    /\ last' = TripObserve("trip", last.arg,
                           <<pathToAction(last.ret[1], TripRoutes(last.arg.table),
                                          TripNames(last.arg.table))>>)
    /\ UNCHANGED <<inst, _exportedGo, built, steps>>

NextTrip ==
    \/ ResolveAction
    \/ ResolvePath

SpecTrip == InitTrip /\ [][NextTrip]_vars
----------------------------------------------------------------------------
(* Claims *)

\* the instance whose handler ran last (0: none, or the module-level go)
Actor == last.inst

\* the last run was a T1 whose action resolves to a pathname
ResolvedT1 ==
    /\ last.kind = "T1"
    /\ ~actionToPathThrows(last.arg, ROUTES_DICT(Actor))

\* the last run was a T1 whose payload lacks a parameter of its route
FailedT1 ==
    /\ last.kind = "T1"
    /\ actionToPathThrows(last.arg, ROUTES_DICT(Actor))

Resolved == actionToPath(last.arg, ROUTES_DICT(Actor))

\* C1: a route-typed dispatch that resolves to a pathname other than the
\* tracked one forwards exactly one action and pushes exactly once; the
\* listener is called once with the pushed pathname, ignores it, and neither
\* a second dispatch nor a second push nor an observer call follows.
C1_NoFeedbackLoop ==
    (ResolvedT1 /\ Resolved # last.tracked) =>
        /\ ~last.threw
        /\ Len(Forwards(last.log)) = 1
        /\ Pushes(last.log) = <<Resolved>>
        /\ SelectSeq(last.log, LAMBDA x : x.e \in {"push", "ignored", "onBackNext", "cut"})
              = << [e |-> "push", pathname |-> Resolved],
                   [e |-> "ignored", pathname |-> Resolved] >>

C1_Witness ==
    /\ ResolvedT1
    /\ Resolved # last.tracked
    /\ Count(last.log, "ignored") = 1

\* C2: in every reachable state, the tracked pathname of an instance equals
\* current.pathname of the last envelope that instance built.
C2_Convergence ==
    \A i \in Inst :
        built[i] # <<>> => inst[i].currentPathname = built[i][1].current.pathname

C2_Witness ==
    /\ last.kind \in {"T1", "T3"}
    /\ ~last.threw
    /\ steps >= 2
    /\ inst[Actor].currentPathname # last.tracked
    /\ built[Actor][1].current.pathname = inst[Actor].currentPathname

\* C3: a navigation event whose pathname equals the tracked pathname leaves
\* the tracked pathname, the closure's prev and the store state as they were,
\* builds no envelope, forwards nothing and does not call the observer.
C3_DuplicateNavigationInert ==
    [][ (last'.kind = "T3" /\ steps' # steps
            /\ last'.arg = inst[last'.inst].currentPathname) =>
          LET i == last'.inst
          IN  /\ inst'[i].currentPathname = inst[i].currentPathname
              /\ inst'[i].prev = inst[i].prev
              /\ inst'[i].store = inst[i].store
              /\ built' = built
              /\ Forwards(last'.log) = <<>>
              /\ Count(last'.log, "onBackNext") = 0
              /\ Count(last'.log, "push") = 0 ]_vars

C3_Witness ==
    /\ last.kind = "T3"
    /\ last.arg = last.tracked
    /\ inst[Actor].options.onBackNext
    /\ Count(last.log, "ignored") = 1

\* the envelopes envs continue the chain whose last current is prev0
Chained(prev0, envs) ==
    \A k \in 1..Len(envs) :
        envs[k].prev = IF k = 1 THEN prev0 ELSE <<envs[k - 1].current>>

\* C4: every envelope an instance builds has as prev the current of the
\* envelope that instance built before it, and null when it is the first,
\* whichever handler builds it.
C4_EnvelopeChaining ==
    [][ last'.inst \in Inst =>
          Chained(IF built[last'.inst] = <<>> THEN <<>>
                  ELSE <<built[last'.inst][1].current>>,
                  Envelopes(last'.log)) ]_vars

C4_Witness ==
    /\ FailedT1
    /\ Len(Envelopes(last.log)) = 1
    /\ built[Actor][1].prev # <<>>
    /\ built[Actor][1].prev[1].type # NOT_FOUND
    /\ built[Actor][1].prev[1].pathname # InitialAddress(Actor)

\* C5: a route-typed dispatch whose payload lacks a parameter of its route
\* does not throw; exactly one action is forwarded, of type NOT_FOUND and with
\* the tracked pathname as current.pathname; the tracked pathname and the
\* platform address stay as they were and nothing is pushed.
C5_RecoveredFailure ==
    FailedT1 =>
        /\ ~last.threw
        /\ Len(Forwards(last.log)) = 1
        /\ Forwards(last.log)[1].type = NOT_FOUND
        /\ Forwards(last.log)[1].meta # <<>>
        /\ Forwards(last.log)[1].meta[1].current.pathname = last.tracked
        /\ inst[Actor].currentPathname = last.tracked
        /\ inst[Actor].address = last.address
        /\ Pushes(last.log) = <<>>

\* C5 restricted to instances whose location key is the default 'location',
\* the key line 106 reads: there the recovery is as stated.
C5_AtDefaultKey ==
    (FailedT1 /\ locationKey(inst[Actor].options) = "location") => C5_RecoveredFailure

\* C6: a route-typed dispatch whose payload satisfies the route forwards the
\* action with an envelope whose current.pathname is the resolved pathname and
\* whose backNext is unset; afterwards the tracked pathname and the platform
\* address are the resolved pathname (INFO with id '7' gives /info/7).
C6_TypedDispatch ==
    ResolvedT1 =>
        /\ ~last.threw
        /\ Len(Forwards(last.log)) = 1
        /\ LET a == Forwards(last.log)[1]
           IN  /\ a.type = last.arg.type
               /\ a.payload = last.arg.payload
               /\ a.meta # <<>>
               /\ a.meta[1].current.pathname = Resolved
               /\ ~a.meta[1].backNext
        /\ inst[Actor].currentPathname = Resolved
        /\ inst[Actor].address = Resolved
        /\ (Actor = 1 /\ last.arg = PlainAction("INFO", [id |-> "7"])) =>
              inst[1].address = <<"info", "7">>

C6_Witness ==
    /\ ResolvedT1
    /\ Actor = 1
    /\ last.arg = PlainAction("INFO", [id |-> "7"])
    /\ last.tracked # <<"info", "7">>
    /\ Pushes(last.log) = << <<"info", "7">> >>

\* no route of instance i matches the pathname
NoRouteMatches(i, pathname) ==
    \A k \in 1..Len(ROUTES(i)) : ~Matches(ROUTES(i)[k], pathname)

\* C7: a navigation event whose pathname differs from the tracked pathname
\* makes that pathname the tracked one and dispatches exactly one action, with
\* backNext set and current.pathname the new pathname, of type NOT_FOUND when
\* no route matches (/unknown); nothing is pushed.
C7_PlatformNavigation ==
    (last.kind = "T3" /\ last.arg # last.tracked) =>
        /\ ~last.threw
        /\ inst[Actor].currentPathname = last.arg
        /\ Len(Forwards(last.log)) = 1
        /\ LET a == Forwards(last.log)[1]
           IN  /\ a.meta # <<>>
               /\ a.meta[1].backNext
               /\ a.meta[1].current.pathname = last.arg
               /\ NoRouteMatches(Actor, last.arg) => a.type = NOT_FOUND
               /\ last.arg = <<"unknown">> => a.type = NOT_FOUND
        /\ Pushes(last.log) = <<>>

C7_Witness ==
    /\ last.kind = "T3"
    /\ last.arg = <<"unknown">>
    /\ last.tracked # <<"unknown">>
    /\ inst[Actor].currentPathname = <<"unknown">>
    /\ Forwards(last.log)[1].type = NOT_FOUND

\* C8: a step handled by one instance (construction, load, T1, T2, T3)
\* leaves the tracked pathname, the closure's prev and the last built envelope
\* of the other instance as they were, in every interleaving.
C8_InstanceIsolation ==
    [][ \A j \in Inst :
          j # last'.inst =>
              /\ inst'[j].currentPathname = inst[j].currentPathname
              /\ inst'[j].prev = inst[j].prev
              /\ built'[j] = built[j] ]_vars

C8_Witness ==
    /\ last.kind = "T1"
    /\ Actor = 2
    /\ built[1] # <<>>
    /\ built[2] # <<>>
    /\ built[1][1].prev # <<>>
    /\ built[2][1].prev # <<>>
    /\ inst[1].prev # inst[2].prev
    /\ inst[1].currentPathname # inst[2].currentPathname

\* C9: once an instance has bound the module-level helper slot, constructing
\* another instance does not rebind it: the route table the go helper is
\* bound to stays that of the first instance.
C9_NoModuleLevelLeak ==
    [][ _exportedGo # 0 => _exportedGo' = _exportedGo ]_vars

\* C10: go(pathname) never throws; before any construction it warns and
\* returns the NOT_FOUND action, after construction it returns what the path
\* resolver gives for the pathname.
C10_GoNeverCrashes ==
    last.kind = "go" =>
        /\ ~last.threw
        /\ _exportedGo = 0 =>
              /\ Count(last.log, "warn") = 1
              /\ last.ret = <<[type |-> NOT_FOUND, payload |-> EmptyPayload]>>
        /\ _exportedGo # 0 =>
              last.ret = <<pathToAction(last.arg, ROUTES(_exportedGo),
                                        ROUTE_NAMES(_exportedGo))>>

\* C11: an action with an error flag and location metadata is forwarded as it
\* is, no envelope is built and the closure's prev stays, and the location
\* update does not take place: the tracked pathname and the platform address
\* stay as they were and nothing is pushed.
C11_ErrorActionNoUpdate ==
    last.kind = "error" =>
        /\ ~last.threw
        /\ Forwards(last.log) = <<last.arg>>
        /\ Envelopes(last.log) = <<>>
        /\ inst[Actor].prev = last.prev
        /\ inst[Actor].currentPathname = last.tracked
        /\ inst[Actor].address = last.address
        /\ Pushes(last.log) = <<>>

\* the position of the first event of kind e in a log, 0 when there is none
FirstAt(log, e) ==
    IF \E j \in 1..Len(log) : log[j].e = e
    THEN CHOOSE j \in 1..Len(log) : log[j].e = e /\ \A h \in 1..(j - 1) : log[h].e # e
    ELSE 0

\* C12: when the store-construction wrapper succeeds it registers the
\* listener first and then forwards exactly one action: the instance's first
\* envelope (prev null), with current.pathname the address the instance was
\* constructed at, load set and backNext unset; nothing is pushed.
C12_InitialLoad ==
    (last.kind = "load" /\ ~last.threw) =>
        /\ inst[Actor].listening
        /\ Count(last.log, "listen") = 1
        /\ Len(Forwards(last.log)) = 1
        /\ FirstAt(last.log, "listen") < FirstAt(last.log, "forward")
        /\ Len(Envelopes(last.log)) = 1
        /\ last.prev = <<>>
        /\ LET a == Forwards(last.log)[1]
           IN  /\ a.meta # <<>>
               /\ a.meta[1].prev = <<>>
               /\ a.meta[1].current.pathname = InitialAddress(Actor)
               /\ a.meta[1].current.pathname = last.tracked
               /\ a.meta[1].load
               /\ ~a.meta[1].backNext
        /\ Pushes(last.log) = <<>>

C12_Witness ==
    /\ last.kind = "load"
    /\ ~last.threw
    /\ Actor = 2
    /\ Forwards(last.log)[1].type = NOT_FOUND
    /\ Forwards(last.log)[1].meta[1].load
    /\ inst[1].listening

\* the host did not mount the location reducer at the configured key
NoLocationState(i, hostKey) == hostKey # locationKey(inst[i].options)

\* C13: with no location state (or one without a pathname) under the
\* configured key the store-construction wrapper throws before it registers
\* the listener and before it dispatches: nothing is logged, no envelope is
\* built, and the tracked pathname and the closure's prev stay.
C13_MissingLocationStateFatal ==
    (last.kind = "load" /\ NoLocationState(Actor, last.arg)) =>
        /\ last.threw
        /\ last.log = <<>>
        /\ ~inst[Actor].listening
        /\ built[Actor] = <<>>
        /\ inst[Actor].prev = <<>>
        /\ inst[Actor].currentPathname = last.tracked

C13_Witness ==
    /\ last.kind = "load"
    /\ last.arg = "location"
    /\ locationKey(inst[Actor].options) = "loc"
    /\ last.threw

C13_WitnessNoPathname ==
    /\ last.kind = "load"
    /\ last.arg = NoLocationReducer
    /\ last.threw

\* C14: an explicit NOT_FOUND dispatch without location metadata does not
\* throw; exactly one action is forwarded, of type NOT_FOUND and with the
\* tracked pathname as current.pathname; the tracked pathname and the platform
\* address stay as they were and nothing is pushed.
C14_ExplicitNotFound ==
    last.kind = "T2" =>
        /\ ~last.threw
        /\ Len(Forwards(last.log)) = 1
        /\ Forwards(last.log)[1].type = NOT_FOUND
        /\ Forwards(last.log)[1].meta # <<>>
        /\ Forwards(last.log)[1].meta[1].current.pathname = last.tracked
        /\ inst[Actor].currentPathname = last.tracked
        /\ inst[Actor].address = last.address
        /\ Pushes(last.log) = <<>>

\* C14 restricted to instances whose location key is the default 'location',
\* the key line 100 reads: there the explicit NOT_FOUND is as stated.
C14_AtDefaultKey ==
    (last.kind = "T2" /\ locationKey(inst[Actor].options) = "location")
        => C14_ExplicitNotFound

\* the payload of the tripped action supplies exactly the parameters of its route
ExactPayload ==
    DOMAIN last.arg.action.payload
        = ParamNames(TripDict(last.arg.table)[last.arg.action.type])

\* a route declared before the tripped action's route matches the pathname
\* the action resolved to
EarlierRouteMatches ==
    LET names  == TripNames(last.arg.table)
        routes == TripRoutes(last.arg.table)
        own    == CHOOSE k \in 1..Len(names) : names[k] = last.arg.action.type
        path   == actionToPath(last.arg.action, TripDict(last.arg.table))
    IN  \E k \in 1..(own - 1) : Matches(routes[k], path)

\* C15 as stated: for every route and every payload that supplies exactly the
\* route's parameters, resolving the action to a pathname and the pathname
\* back gives the action again.
C15_RoundTripEveryRoute ==
    (last.kind = "trip" /\ ExactPayload) => last.ret = <<last.arg.action>>

\* C15: for every route and every payload that supplies exactly the route's
\* parameters, resolving the action to a pathname and the pathname back gives
\* the action again, provided no route declared earlier matches that pathname.
C15_RoundTrip ==
    (last.kind = "trip" /\ ExactPayload /\ ~EarlierRouteMatches)
        => last.ret = <<last.arg.action>>

C15_Witness ==
    /\ last.kind = "trip"
    /\ ExactPayload
    /\ ~EarlierRouteMatches
    /\ last.arg.table = 3
    /\ last.arg.action = [type |-> "POST", payload |-> [id |-> "7", slug |-> "home"]]
    /\ last.ret = <<last.arg.action>>

\* C16: in every state after the load dispatch, whichever triggers have
\* completed since, the tracked pathname of the instance, the pathname in the
\* store's location state and the pathname of the platform address are equal.
C16_IdleAgreement ==
    \A i \in Inst :
        inst[i].store # <<>> =>
            /\ StateAt(inst[i], locationKey(inst[i].options)) # <<>>
            /\ inst[i].currentPathname
                  = StateAt(inst[i], locationKey(inst[i].options))[1].pathname
            /\ inst[i].currentPathname = inst[i].address

C16_Witness ==
    /\ steps = MaxTriggers
    /\ last.kind = "T1"
    /\ Pushes(last.log) # <<>>
    /\ \A i \in Inst :
          /\ inst[i].store # <<>>
          /\ inst[i].currentPathname # InitialAddress(i)
          /\ inst[i].currentPathname = inst[i].address

\* the events of a log that are of one of the kinds
Only(log, kinds) == SelectSeq(log, LAMBDA x : x.e \in kinds)

\* the event kinds of a log, in order
Kinds(log) == [k \in 1..Len(log) |-> log[k].e]

\* every title write of a log has a push of its own before it: up to each
\* title write there are at least as many pushes as title writes (the listener
\* a push calls runs between the push and its title write)
TitleFollowsPush(log) ==
    \A k \in 1..Len(log) :
        log[k].e = "title" =>
            Count(SubSeq(log, 1, k), "title") <= Count(SubSeq(log, 1, k), "push")

\* C17: a handler pushes and writes the title only when the pathname the
\* reducer returned differs from the tracked pathname: a dispatch that ends at
\* the pathname tracked before it makes no push and no title write, a
\* route-typed dispatch that resolves to the tracked pathname is still
\* forwarded with its envelope, and a title write always follows a push of
\* the same reconciliation.
C17_PushOnlyOnChange ==
    (last.kind \in {"load", "T1", "T2", "T3"} /\ ~last.threw) =>
        /\ TitleFollowsPush(last.log)
        /\ Count(last.log, "title") <= Count(last.log, "push")
        /\ (last.kind # "T3" /\ Len(Forwards(last.log)) = 1
              /\ Forwards(last.log)[1].meta[1].current.pathname = last.tracked) =>
                 /\ Pushes(last.log) = <<>>
                 /\ Count(last.log, "title") = 0
        /\ (ResolvedT1 /\ Resolved = last.tracked) =>
                 /\ Len(Forwards(last.log)) = 1
                 /\ Forwards(last.log)[1].meta # <<>>
                 /\ Forwards(last.log)[1].meta[1].current.pathname = Resolved
                 /\ Pushes(last.log) = <<>>
                 /\ Count(last.log, "title") = 0
        /\ (last.kind = "T1" /\ Len(Forwards(last.log)) = 1
              /\ Forwards(last.log)[1].meta[1].current.pathname # last.tracked) =>
                 Len(Pushes(last.log)) = 1

C17_Witness ==
    /\ ResolvedT1
    /\ Resolved = last.tracked
    /\ inst[Actor].options.window
    /\ TitleOf(inst[Actor]) # <<>>
    /\ Len(Forwards(last.log)) = 1
    /\ Pushes(last.log) = <<>>

C17_WitnessTitle ==
    /\ ResolvedT1
    /\ Kinds(Only(last.log, {"forward", "push", "title"})) = <<"forward", "push", "title">>

\* in a log, every action forwarded for a navigation event (backNext set) has
\* the observer call for its pathname two events before it, made while another
\* pathname was tracked, with only the building of its envelope in between;
\* and every observer call is followed by such a forward
ObserverBeforeDispatch(log) ==
    /\ \A k \in 1..Len(log) :
          (log[k].e = "forward" /\ log[k].action.meta # <<>>
              /\ log[k].action.meta[1].backNext) =>
             /\ k > 2
             /\ log[k - 1].e = "envelope"
             /\ log[k - 2].e = "onBackNext"
             /\ log[k - 2].pathname = log[k].action.meta[1].current.pathname
             /\ log[k - 2].tracked # log[k - 2].pathname
             /\ log[k - 2].forwarded = Count(SubSeq(log, 1, k - 1), "forward")
    /\ \A k \in 1..Len(log) :
          log[k].e = "onBackNext" =>
             /\ k + 2 <= Len(log)
             /\ log[k + 2].e = "forward"
             /\ log[k + 2].action.meta[1].backNext

\* C18: for a navigation event whose pathname differs from the tracked
\* pathname, an instance given an observer calls it exactly once, with the new
\* pathname, while the tracked pathname is still the old one and before
\* anything is built or forwarded for the event: the call is the first thing
\* the handler does; an instance given no observer calls none. The same
\* order holds for the events the listener receives while a dispatch pushes.
C18_ObserverFirst ==
    /\ (last.kind = "T3" /\ last.arg # last.tracked) =>
          IF inst[Actor].options.onBackNext
          THEN /\ Count(last.log, "onBackNext") = 1
               /\ last.log[1] = [e |-> "onBackNext", pathname |-> last.arg,
                                 tracked |-> last.tracked, forwarded |-> 0]
               /\ FirstAt(last.log, "onBackNext") < FirstAt(last.log, "envelope")
               /\ FirstAt(last.log, "onBackNext") < FirstAt(last.log, "forward")
               /\ inst[Actor].currentPathname = last.arg
          ELSE Count(last.log, "onBackNext") = 0
    /\ (Actor \in Inst /\ inst[Actor].options.onBackNext) =>
          ObserverBeforeDispatch(last.log)

C18_Witness ==
    /\ last.kind = "T3"
    /\ last.arg # last.tracked
    /\ inst[Actor].options.onBackNext
    /\ Count(last.log, "onBackNext") = 1
    /\ Len(Forwards(last.log)) = 1
    /\ inst[Actor].currentPathname = last.arg

\* C19: at a location key other than the default, an explicit NOT_FOUND
\* dispatch and a failed route dispatch do not throw, forward a NOT_FOUND
\* action that carries the tracked pathname (the pathname the state under the
\* configured key held before), and leave the tracked pathname and the
\* platform address as they were.
C19_ConfiguredKeyUsed ==
    ((last.kind = "T2" \/ FailedT1)
        /\ locationKey(inst[Actor].options) # "location") =>
        /\ ~last.threw
        /\ Forwards(last.log) # <<>>
        /\ Forwards(last.log)[1].type = NOT_FOUND
        /\ Forwards(last.log)[1].meta # <<>>
        /\ Forwards(last.log)[1].meta[1].current.pathname = last.tracked
        /\ inst[Actor].currentPathname = last.tracked
        /\ inst[Actor].address = last.address

\* C20: dispatching an action whose type is no route name of the instance and
\* not NOT_FOUND forwards exactly that action, builds no envelope, and leaves
\* the closure's prev, the store's location state, the tracked pathname and
\* the platform address as they were; nothing is pushed.
C20_NonRouteInert ==
    [][ (last'.kind = "other" /\ steps' # steps) =>
          LET i == last'.inst
          IN  /\ ~last'.threw
              /\ Forwards(last'.log) = <<last'.arg>>
              /\ Envelopes(last'.log) = <<>>
              /\ Pushes(last'.log) = <<>>
              /\ built' = built
              /\ inst'[i].prev = inst[i].prev
              /\ inst'[i].store = inst[i].store
              /\ inst'[i].currentPathname = inst[i].currentPathname
              /\ inst'[i].address = inst[i].address ]_vars

\* C20 restricted to types that are no property name of the routes object at
\* all, own or inherited: there the dispatch is inert as stated.
C20_OwnNamesInert ==
    [][ (last'.kind = "other" /\ steps' # steps
            /\ last'.arg.type \notin InheritedNames) =>
          LET i == last'.inst
          IN  /\ ~last'.threw
              /\ Forwards(last'.log) = <<last'.arg>>
              /\ Envelopes(last'.log) = <<>>
              /\ Pushes(last'.log) = <<>>
              /\ built' = built
              /\ inst'[i].prev = inst[i].prev
              /\ inst'[i].store = inst[i].store
              /\ inst'[i].currentPathname = inst[i].currentPathname
              /\ inst'[i].address = inst[i].address ]_vars

C20_Witness ==
    /\ last.kind = "other"
    /\ Actor = 1
    /\ last.arg.type = "ITEM"
    /\ Forwards(last.log) = <<last.arg>>
    /\ inst[1].prev # <<>>
    /\ inst[1].currentPathname # InitialAddress(1)
=============================================================================
